---- MODULE Spec2Model ----
(***************************************************************************)
(* A model of meshio's VTU codec (src/meshio/vtu/_vtu.py): the cell        *)
(* reorganizer of the reader (_cells_from_data, _organize_cells,           *)
(* VtuReader.__init__), the flattening done by write, the raw-binary       *)
(* repair (_parse_raw_binary) and the binary array headers of write.       *)
(*                                                                         *)
(* numpy arrays are sequences; a Python index i is the TLA+ index i + 1.   *)
(* A dict is a function whose domain is its set of keys.  A raised         *)
(* exception is a status string naming the exception; "ok" is a return.    *)
(***************************************************************************)
EXTENDS Integers, Sequences, FiniteSets, TLC

\* ------------------------------------------------------------ bounds
\* Cells in a document, over all its pieces.
MaxCells == 3
\* Pieces in a document.
MaxPieces == 2

\* ------------------------------------------------------------ python helpers
Min(a, b) == IF a < b THEN a ELSE b
Max(a, b) == IF a > b THEN a ELSE b

EmptyDict == [k \in {} |-> <<>>]
DictSet(d, k, v) == [x \in (DOMAIN d) \cup {k} |-> IF x = k THEN v ELSE d[x]]
DictPop(d, k) == [x \in (DOMAIN d) \ {k} |-> d[x]]

\* arr[i] with Python's negative indices; IndexOK says whether it raises.
IndexOK(arr, i) == i >= 0 - Len(arr) /\ i < Len(arr)
At(arr, i) == IF i >= 0 THEN arr[i + 1] ELSE arr[Len(arr) + i + 1]

\* arr[a:b], clipped the way a Python slice is.
ClipIndex(i, n) == IF i < 0 THEN Max(i + n, 0) ELSE Min(i, n)
PySlice(arr, a, b) == SubSeq(arr, ClipIndex(a, Len(arr)) + 1, ClipIndex(b, Len(arr)))

\* The members of a finite set of integers in ascending order (numpy.unique,
\* numpy.where).
RECURSIVE SortedSeq(_)
SortedSeq(S) ==
  IF S = {} THEN <<>>
  ELSE LET m == CHOOSE x \in S : \A y \in S : x <= y
       IN <<m>> \o SortedSeq(S \ {m})

RECURSIVE SumSeq(_)
SumSeq(s) == IF s = <<>> THEN 0 ELSE Head(s) + SumSeq(Tail(s))

\* numpy.arange(0, n): empty when n <= 0.
Arange(n) == [j \in 1..Max(n, 0) |-> j - 1]

\* ------------------------------------------------------------ cell blocks
\* A shape tag: the shape name and the decimal suffix str(sz) of a polygon
\* or polyhedron tag; a fixed shape has no suffix (n = -1).
Tag(name, n) == [name |-> name, n |-> n]
FixedTag(name) == Tag(name, 0 - 1)
CellBlock(type, data) == [type |-> type, data |-> data]

\* An entry of the reserved face-list mapping: None, or the face lists of
\* the cells.
NoFaces == [isNone |-> TRUE, cells |-> <<>>]
FaceLists(cs) == [isNone |-> FALSE, cells |-> cs]

\* The cell data _cells_from_data returns: arrays is the dict name -> list of
\* arrays; hasFoc says whether the key "polyhedron:faces_of_cells" is
\* present and foc is the mapping stored under it.
NoTagMap == [t \in {} |-> NoFaces]
CellData(arrays, hasFoc, foc) == [arrays |-> arrays, hasFoc |-> hasFoc, foc |-> foc]
EmptyCellData == CellData(EmptyDict, FALSE, NoTagMap)

\* ------------------------------------------------------------ type tables
\* meshio/_common.py is not part of the sources at hand; the tables below
\* carry the entries the model uses.
VTK_TRIANGLE == 5
VTK_POLYGON == 7
VTK_WEDGE == 13
VTK_POLYHEDRON == 42

vtk_to_meshio_type ==
  [c \in {VTK_TRIANGLE, VTK_POLYGON, VTK_WEDGE, VTK_POLYHEDRON} |->
     CASE c = VTK_TRIANGLE -> "triangle"
       [] c = VTK_POLYGON -> "polygon"
       [] c = VTK_WEDGE -> "wedge"
       [] c = VTK_POLYHEDRON -> "polyhedron"]

meshio_to_vtk_type ==
  [n \in {"triangle", "polygon", "wedge", "polyhedron"} |->
     CASE n = "triangle" -> VTK_TRIANGLE
       [] n = "polygon" -> VTK_POLYGON
       [] n = "wedge" -> VTK_WEDGE
       [] n = "polyhedron" -> VTK_POLYHEDRON]

num_nodes_per_cell ==
  [n \in {"triangle", "wedge"} |-> IF n = "triangle" THEN 3 ELSE 6]

WedgeOrder == <<0, 2, 1, 3, 5, 4>>

\* The node-order permutation from the file's ordering to the mesh's.
_vtk_to_meshio_order(vtk_type, numnodes) ==
  IF vtk_type = VTK_WEDGE THEN WedgeOrder ELSE Arange(numnodes)

\* The node-order permutation from the mesh's ordering to the file's; the
\* shape is given as the block's tag.
_meshio_to_vtk_order(meshio_type, numnodes) ==
  IF meshio_type = FixedTag("wedge") THEN WedgeOrder ELSE Arange(numnodes)

\* ------------------------------------------------------------ _cells_from_data
\* b: the boundaries of the maximal runs of equal type codes (0-based).
RunBoundsMutant(types) == <<0, Len(types)>>
RunBounds(types) ==
  <<0>> \o SortedSeq({p \in 1..(Len(types) - 1) : types[p] # types[p + 1]})
        \o <<Len(types)>>

\* numpy.unique(numpy.hstack(faces_this_cell)).size
NumNodesThisCell(faces_this_cell) ==
  Cardinality(UNION {{f[i] : i \in 1..Len(f)} :
                     f \in {faces_this_cell[k] : k \in 1..Len(faces_this_cell)}})

\* The inner loop over the faces of one cell: `remaining` faces are still to
\* be read and next_face is the position of the next face's node count.  At
\* its end the cell's distinct nodes are counted (hstack raises ValueError
\* on a cell without faces).
RECURSIVE WalkFaces(_, _, _, _)
WalkFaces(faces, next_face, remaining, faces_this_cell) ==
  IF remaining <= 0
  THEN IF faces_this_cell = <<>>
       THEN [err |-> "ValueError", nodes |-> 0, faces |-> <<>>]
       ELSE [err |-> "ok", nodes |-> NumNodesThisCell(faces_this_cell),
             faces |-> faces_this_cell]
  ELSE IF ~IndexOK(faces, next_face)
  THEN [err |-> "IndexError", nodes |-> 0, faces |-> <<>>]
  ELSE LET num_nodes_this_face == At(faces, next_face)
       IN WalkFaces(faces, next_face + num_nodes_this_face + 1, remaining - 1,
                    Append(faces_this_cell,
                           PySlice(faces, next_face + 1,
                                   next_face + num_nodes_this_face + 1)))

\* The outer loop over the cells named by faceoffsets (as start positions):
\* per cell its face list and its number of distinct nodes.
RECURSIVE FacesOfCellsLoop(_, _, _)
FacesOfCellsLoop(faces, starts, done) ==
  IF done # <<>> /\ done[Len(done)].err # "ok"
  THEN [err |-> done[Len(done)].err, val |-> <<>>]
  ELSE IF starts = <<>> THEN [err |-> "ok", val |-> done]
  ELSE LET cell_start == Head(starts)
       IN IF ~IndexOK(faces, cell_start) THEN [err |-> "IndexError", val |-> <<>>]
          ELSE FacesOfCellsLoop(faces, Tail(starts),
                 Append(done, WalkFaces(faces, cell_start + 1,
                                        At(faces, cell_start), <<>>)))

\* Those of the parsed cells that have `key` distinct nodes, in cell order.
RECURSIVE CellsWithNodes(_, _)
CellsWithNodes(parsed, key) ==
  IF parsed = <<>> THEN <<>>
  ELSE (IF Head(parsed).nodes = key THEN <<Head(parsed).faces>> ELSE <<>>)
       \o CellsWithNodes(Tail(parsed), key)

\* The key of the face-list mapping for cells with `key` distinct nodes.
FaceKey(key) == Tag("polyhedron", key)

\* cell_data["polyhedron:faces_of_cells"] as built from the parsed cells.
FacesOfCellsMap(parsed) ==
  LET keys == {parsed[i].nodes : i \in 1..Len(parsed)}
  IN [t \in {FaceKey(k) : k \in keys} |->
        FaceLists(CellsWithNodes(parsed, CHOOSE k \in keys : FaceKey(k) = t))]

\* The except branch: found_faces_before is unbound unless an earlier run of
\* this call ran the try block to its end.
FacesMissing(acc) ==
  IF acc.found_faces_before = "unbound"
  THEN [acc EXCEPT !.status = "UnboundLocalError"]
  ELSE IF acc.found_faces_before # "True"
  THEN [acc EXCEPT !.status = "ValueError"]
  ELSE acc

\* The try/except that takes faces and faceoffsets out of the raw cell data:
\* each pop that succeeds removes its key and rebinds its variable.
PopFaces(acc) ==
  IF "faces" \notin DOMAIN acc.raw THEN FacesMissing(acc)
  ELSE IF "faceoffsets" \notin DOMAIN acc.raw
  THEN FacesMissing([acc EXCEPT !.raw = DictPop(acc.raw, "faces"),
                                !.faces = acc.raw["faces"]])
  ELSE [acc EXCEPT !.raw = DictPop(DictPop(acc.raw, "faces"), "faceoffsets"),
                   !.faces = acc.raw["faces"],
                   !.faceoffsets = <<0>> \o PySlice(acc.raw["faceoffsets"], 0, 0 - 1),
                   !.found_faces_before = "True"]

\* Store the face lists parsed from faces under the reserved key.
StoreFaces(acc, p) ==
  IF p.err # "ok" THEN [acc EXCEPT !.status = p.err]
  ELSE [acc EXCEPT !.cell_data.hasFoc = TRUE,
                   !.cell_data.foc = FacesOfCellsMap(p.val)]

\* The double loop over cells and faces, unless the pop has raised.
ParseFaces(acc) ==
  IF acc.status # "ok" THEN acc
  ELSE StoreFaces(acc, FacesOfCellsLoop(acc.faces, acc.faceoffsets, <<>>))

\* The polyhedron part of a run: take the faces, rebuild the face lists of
\* all cells of faceoffsets, store them under the reserved key.
PolyhedronFaces(acc) ==
  ParseFaces(PopFaces([acc EXCEPT !.has_polyhedron = TRUE]))

\* cells.append(block) and, per raw name, cell_data[name].append(slice).
Emit(acc, block, slices) ==
  LET old == acc.cell_data.arrays
      new == [name \in (DOMAIN old) \cup (DOMAIN slices) |->
                (IF name \in DOMAIN old THEN old[name] ELSE <<>>)
                \o (IF name \in DOMAIN slices THEN <<slices[name]>> ELSE <<>>)]
  IN [acc EXCEPT !.cells = Append(acc.cells, block), !.cell_data.arrays = new]

\* connectivity[indices], one row per entry of `ends`: row r reads the
\* positions ends[r] + order[j] - n.
RowIndicesMutant(ends, order, n) ==
  [r \in 1..Len(ends) |-> [j \in 1..Len(order) |-> ends[r] + (j - 1) - n]]
RowIndices(ends, order, n) ==
  [r \in 1..Len(ends) |-> [j \in 1..Len(order) |-> ends[r] + order[j] - n]]
RowsOK(connectivity, idx) ==
  \A r \in 1..Len(idx) : \A j \in 1..Len(idx[r]) : IndexOK(connectivity, idx[r][j])
Gather(connectivity, idx) ==
  [r \in 1..Len(idx) |-> [j \in 1..Len(idx[r]) |-> At(connectivity, idx[r][j])]]

\* d[start + items] for an index array `where` (already start + items).
FancyOK(d, where) == \A k \in 1..Len(where) : IndexOK(d, where[k])
Fancy(d, where) == [k \in 1..Len(where) |-> At(d, where[k])]

\* A run with one node count per cell (the else branch).
EmitRows(acc, connectivity, type, idx, slices) ==
  IF ~RowsOK(connectivity, idx) THEN [acc EXCEPT !.status = "IndexError"]
  ELSE Emit(acc, CellBlock(type, Gather(connectivity, idx)), slices)

FixedRun(acc, connectivity, offsets, types, start, end, meshio_type) ==
  EmitRows(acc, connectivity, FixedTag(meshio_type),
           RowIndices(SubSeq(offsets, start + 1, end),
                      _vtk_to_meshio_order(types[start + 1],
                                           num_nodes_per_cell[meshio_type]),
                      num_nodes_per_cell[meshio_type]),
           [name \in DOMAIN acc.raw |-> PySlice(acc.raw[name], start, end)])

\* One pass of the loop over the distinct cell sizes: the block of the cells
\* `items` (positions in the run) that have size sz.
SizeBlock(acc, connectivity, types, start, start_cn, items, sz, meshio_type) ==
  IF \E name \in DOMAIN acc.raw :
       ~FancyOK(acc.raw[name], [k \in 1..Len(items) |-> start + items[k]])
  THEN [acc EXCEPT !.status = "IndexError"]
  ELSE EmitRows(acc, connectivity, Tag(meshio_type, sz),
                RowIndices([k \in 1..Len(items) |-> start_cn[items[k] + 2]],
                           _vtk_to_meshio_order(types[start + 1], sz), sz),
                [name \in DOMAIN acc.raw |->
                   Fancy(acc.raw[name], [k \in 1..Len(items) |-> start + items[k]])])

\* The loop over the distinct cell sizes of a polygon or polyhedron run.
RECURSIVE SizeLoop(_, _, _, _, _, _, _, _)
SizeLoop(acc, connectivity, types, start, start_cn, size, sizes, meshio_type) ==
  IF sizes = <<>> \/ acc.status # "ok" THEN acc
  ELSE SizeLoop(SizeBlock(acc, connectivity, types, start, start_cn,
                          SortedSeq({q - 1 : q \in {r \in 1..Len(size) :
                                                      size[r] = Head(sizes)}}),
                          Head(sizes), meshio_type),
                connectivity, types, start, start_cn, size, Tail(sizes),
                meshio_type)

\* numpy.diff
DiffMutant(a) == [r \in 1..(Len(a) - 1) |-> a[r + 1]]
Diff(a) == [r \in 1..(Len(a) - 1) |-> a[r + 1] - a[r]]
SeqRange(a) == {a[r] : r \in 1..Len(a)}

SizedRun(acc, connectivity, types, start, start_cn, size, meshio_type) ==
  SizeLoop(acc, connectivity, types, start, start_cn, size,
           SortedSeq(SeqRange(size)), meshio_type)

\* The part of a polygon or polyhedron run after the faces.
CellsOfRun(acc, connectivity, types, start, start_cn, meshio_type) ==
  IF acc.status # "ok" THEN acc
  ELSE SizedRun(acc, connectivity, types, start, start_cn, Diff(start_cn),
                meshio_type)

\* A polygon or polyhedron run.
VariableRun(acc, connectivity, offsets, types, start, end, meshio_type) ==
  CellsOfRun(IF meshio_type = "polyhedron" THEN PolyhedronFaces(acc) ELSE acc,
             connectivity, types, start,
             <<IF start = 0 THEN 0 ELSE offsets[start]>>
               \o SubSeq(offsets, start + 1, end),
             meshio_type)

\* Whether a shape name takes the polygon/polyhedron branch.
IsVariableShape(meshio_type) == meshio_type = "polygon" \/ meshio_type = "polyhedron"

\* One run: its shape name decides the branch.
Run(acc, connectivity, offsets, types, start, end, meshio_type) ==
  IF IsVariableShape(meshio_type)
  THEN VariableRun(acc, connectivity, offsets, types, start, end, meshio_type)
  ELSE FixedRun(acc, connectivity, offsets, types, start, end, meshio_type)

\* The loop over the runs b[k], b[k+1].
RECURSIVE RunLoop(_, _, _, _, _, _)
RunLoop(acc, connectivity, offsets, types, b, k) ==
  IF k >= Len(b) \/ acc.status # "ok" THEN acc
  ELSE IF ~IndexOK(types, b[k]) THEN [acc EXCEPT !.status = "IndexError"]
  ELSE IF types[b[k] + 1] \notin DOMAIN vtk_to_meshio_type
  THEN [acc EXCEPT !.status = "ReadError"]
  ELSE RunLoop(Run(acc, connectivity, offsets, types, b[k], b[k + 1],
                   vtk_to_meshio_type[types[b[k] + 1]]),
               connectivity, offsets, types, b, k + 1)

\* The final padding: with a polyhedron run in the piece, every block that is
\* not a polyhedron block gets the entry None.
PlainTags(cells) ==
  {t \in {cells[i].type : i \in 1..Len(cells)} : t.name # "polyhedron"}
Padded(foc, plain) ==
  [t \in (DOMAIN foc) \cup plain |-> IF t \in plain THEN NoFaces ELSE foc[t]]
PadFaces(acc) ==
  IF ~acc.has_polyhedron \/ acc.status # "ok" THEN acc
  ELSE [acc EXCEPT !.cell_data.foc = Padded(acc.cell_data.foc, PlainTags(acc.cells))]

\* What the call hands back: status, the cell blocks, the cell data, and
\* raw, the dict cell_data_raw as the call leaves it (the pops act on the
\* caller's dict).  On an exception nothing is returned: cells and cell_data
\* are empty.
Outcome(acc) ==
  IF acc.status = "ok"
  THEN [status |-> "ok", cells |-> acc.cells, cell_data |-> acc.cell_data,
        raw |-> acc.raw]
  ELSE [status |-> acc.status, cells |-> <<>>, cell_data |-> EmptyCellData,
        raw |-> acc.raw]

StartOfCall(cell_data_raw) ==
  [status |-> "ok", cells |-> <<>>, cell_data |-> EmptyCellData,
   raw |-> cell_data_raw, has_polyhedron |-> FALSE,
   found_faces_before |-> "unbound", faces |-> <<>>, faceoffsets |-> <<>>]

_cells_from_data(connectivity, offsets, types, cell_data_raw) ==
  IF Len(offsets) # Len(types) THEN Outcome([StartOfCall(cell_data_raw)
                                               EXCEPT !.status = "ReadError"])
  ELSE Outcome(PadFaces(RunLoop(StartOfCall(cell_data_raw), connectivity,
                                offsets, types, RunBounds(types), 1)))

\* ------------------------------------------------------------ _organize_cells
\* c.data + offset
ShiftRowsMutant(data, offset) == data
ShiftRows(data, offset) ==
  [r \in 1..Len(data) |-> [j \in 1..Len(data[r]) |-> data[r][j] + offset]]
ShiftBlocks(cls, offset) ==
  [i \in 1..Len(cls) |-> CellBlock(cls[i].type, ShiftRows(cls[i].data, offset))]

\* The dict a piece's cells were read into has the keys faces and
\* faceoffsets exactly when the piece has both arrays.
WithFaces(cdr, piece) ==
  IF piece.has_faces
  THEN DictSet(DictSet(cdr, "faces", piece.faces), "faceoffsets", piece.faceoffsets)
  ELSE cdr

\* One pass of the loop over the pieces, r being what _cells_from_data
\* handed back: the blocks are appended shifted by the piece's point offset,
\* cell_data is rebound to this piece's cell data.
PieceStep(acc, r, offset) ==
  IF r.status # "ok" THEN [acc EXCEPT !.status = r.status]
  ELSE [status |-> "ok",
        out_cells |-> acc.out_cells \o ShiftBlocks(r.cells, offset),
        cell_data |-> r.cell_data,
        bound |-> TRUE,
        shared |-> r.raw]

\* The loop over zip(point_offsets, cells, cell_data_raw).  With `aliased`
\* every entry of cell_data_raw is one and the same dict ([{}] * len(cells)),
\* so what a piece leaves in it is what the next piece finds: `shared`.
\* cell_data is the loop's variable of that name, bound by the last piece.
RECURSIVE PieceLoop(_, _, _, _, _, _)
PieceLoop(acc, point_offsets, cells, cell_data_raw, aliased, p) ==
  IF p > Len(cells) \/ acc.status # "ok" THEN acc
  ELSE PieceLoop(
         PieceStep(acc,
                   _cells_from_data(
                     cells[p].connectivity, cells[p].offsets, cells[p].types,
                     WithFaces(IF aliased THEN acc.shared ELSE cell_data_raw[p],
                               cells[p])),
                   point_offsets[p]),
         point_offsets, cells, cell_data_raw, aliased, p + 1)

Returned(status, cells, cell_data) ==
  [status |-> status, cells |-> cells, cell_data |-> cell_data]
Raised(status) == Returned(status, <<>>, EmptyCellData)

\* return out_cells, cell_data: cell_data is the variable the loop bound last.
OrganizedCells(acc) ==
  IF acc.status # "ok" THEN Raised(acc.status)
  ELSE IF ~acc.bound THEN Raised("UnboundLocalError")
  ELSE Returned("ok", acc.out_cells, acc.cell_data)

_organize_cells(point_offsets, cells, cell_data_raw, aliased) ==
  IF Len(point_offsets) # Len(cells) THEN Raised("ReadError")
  ELSE OrganizedCells(PieceLoop([status |-> "ok", out_cells |-> <<>>,
                                 cell_data |-> EmptyCellData, bound |-> FALSE,
                                 shared |-> EmptyDict],
                                point_offsets, cells, cell_data_raw, aliased, 1))

\* ------------------------------------------------------------ VtuReader.__init__
\* numpy.cumsum([0] + counts[:-1])
PointOffsets(pieces) ==
  [p \in 1..Len(pieces) |->
     SumSeq([q \in 1..(p - 1) |-> pieces[q].num_points])]

\* The part of the constructor that turns the pieces into cells and cell
\* data.  Every piece has a Points and a Cells section; has_cell_data says
\* whether the pieces have a CellData section (each its own dict cd) or none
\* has one.
VtuReaderInit(pieces, has_cell_data) ==
  IF pieces = <<>> THEN Raised("ReadError")
  ELSE IF \E p \in 1..Len(pieces) :
             \/ Len(pieces[p].offsets) # pieces[p].num_cells
             \/ Len(pieces[p].types) # pieces[p].num_cells
       THEN Raised("ReadError")
  ELSE _organize_cells(PointOffsets(pieces), pieces,
                       [p \in 1..Len(pieces) |->
                          IF has_cell_data THEN pieces[p].cd ELSE EmptyDict],
                       ~has_cell_data)

\* ------------------------------------------------------------ write: face arrays
RECURSIVE FlattenFaces(_)
FlattenFaces(cell) ==
  IF cell = <<>> THEN <<>>
  ELSE <<Len(Head(cell))>> \o Head(cell) \o FlattenFaces(Tail(cell))

\* The loop of _polyhedron_face_cells: data grows by each cell's face count
\* and faces, data_size_per_cell records len(data) after each cell.
RECURSIVE FaceCellsLoop(_, _, _)
FaceCellsLoop(face_cells, data, data_size_per_cell) ==
  IF face_cells = <<>> THEN [faces |-> data, faceoffsets |-> data_size_per_cell]
  ELSE FaceCellsLoop(Tail(face_cells),
                     data \o <<Len(Head(face_cells))>> \o FlattenFaces(Head(face_cells)),
                     Append(data_size_per_cell,
                            Len(data) + 1 + Len(FlattenFaces(Head(face_cells)))))

_polyhedron_face_cells(face_cells) == FaceCellsLoop(face_cells, <<>>, <<>>)

\* ------------------------------------------------------------ write: cells
\* A mesh is its cell blocks and its cell data (the points and the other
\* data play no part in what is modelled).
Mesh(cells, cell_data) == [cells |-> cells, cell_data |-> cell_data]

\* raw_from_cell_data: per name the arrays of the blocks, concatenated.
RECURSIVE Concatenate(_)
Concatenate(arrays) ==
  IF arrays = <<>> THEN <<>> ELSE Head(arrays) \o Concatenate(Tail(arrays))
raw_from_cell_data(arrays) == [name \in DOMAIN arrays |-> Concatenate(arrays[name])]

\* v.data.shape[1]; a block without cells has no row to show it.
NumCols(data) == IF data = <<>> THEN 0 ELSE Len(data[1])

\* v.data[:, order].reshape(-1)
ReorderedRows(data, order) ==
  Concatenate([r \in 1..Len(data) |-> [j \in 1..Len(order) |-> data[r][order[j] + 1]]])
BlockConnectivity(v) ==
  ReorderedRows(v.data, _meshio_to_vtk_order(v.type, NumCols(v.data)))
Connectivity(cells) == Concatenate([k \in 1..Len(cells) |-> BlockConnectivity(cells[k])])

\* v.data.shape[1] * numpy.arange(1, v.data.shape[0] + 1)
BlockOffsetsMutant(v) == [r \in 1..Len(v.data) |-> NumCols(v.data) * (r - 1)]
BlockOffsets(v) == [r \in 1..Len(v.data) |-> NumCols(v.data) * r]

\* for k in range(1, len(offsets)): offsets[k] += offsets[k - 1][-1], then
\* the concatenation.  offsets[k - 1][-1] raises on a block without cells.
RECURSIVE OffsetsLoop(_, _, _)
OffsetsLoop(cells, k, done) ==
  IF k > Len(cells) THEN [status |-> "ok", offsets |-> Concatenate(done)]
  ELSE IF k = 1 THEN OffsetsLoop(cells, 2, <<BlockOffsets(cells[1])>>)
  ELSE IF done[k - 1] = <<>> THEN [status |-> "IndexError", offsets |-> <<>>]
  ELSE OffsetsLoop(cells, k + 1,
         Append(done, [r \in 1..Len(cells[k].data) |->
                         BlockOffsets(cells[k])[r] + done[k - 1][Len(done[k - 1])]]))

\* key_: the tag without the node count of a polygon or polyhedron tag.
TypeKey(k) ==
  IF k.name = "polygon" \/ k.name = "polyhedron" THEN k.name
  ELSE IF k.n = 0 - 1 THEN k.name
  ELSE "?"

\* The polyhedron branch of the loop over the blocks: the face arrays of
\* the block's tag, shifted by the last face offset written so far.
AppendFaces(acc, fc) ==
  [acc EXCEPT
     !.faces = acc.faces \o fc.faces,
     !.faceoffsets =
        acc.faceoffsets
        \o [i \in 1..Len(fc.faceoffsets) |->
              fc.faceoffsets[i]
                + (IF acc.faceoffsets = <<>> THEN 0
                   ELSE acc.faceoffsets[Len(acc.faceoffsets)])]]

PolyhedronBlock(acc, k, has_faces_of_cells, faces_of_cells) ==
  IF ~has_faces_of_cells THEN [acc EXCEPT !.status = "TypeError"]
  ELSE IF k \notin DOMAIN faces_of_cells THEN [acc EXCEPT !.status = "KeyError"]
  ELSE IF faces_of_cells[k].isNone THEN [acc EXCEPT !.status = "TypeError"]
  ELSE AppendFaces(acc, _polyhedron_face_cells(faces_of_cells[k].cells))

AppendTypes(acc, v) ==
  IF acc.status # "ok" THEN acc
  ELSE IF TypeKey(v.type) \notin DOMAIN meshio_to_vtk_type
  THEN [acc EXCEPT !.status = "KeyError"]
  ELSE [acc EXCEPT !.types = acc.types
                     \o [r \in 1..Len(v.data) |-> meshio_to_vtk_type[TypeKey(v.type)]]]

\* The loop "for k, v in mesh.cells" that builds types, faces, faceoffsets.
RECURSIVE TypesLoop(_, _, _, _, _)
TypesLoop(acc, cells, i, has_faces_of_cells, faces_of_cells) ==
  IF i > Len(cells) \/ acc.status # "ok" THEN acc
  ELSE TypesLoop(
         AppendTypes(IF cells[i].type.name = "polyhedron"
                     THEN PolyhedronBlock(acc, cells[i].type, has_faces_of_cells,
                                          faces_of_cells)
                     ELSE acc,
                     cells[i]),
         cells, i + 1, has_faces_of_cells, faces_of_cells)

\* The piece write puts into the file, t being what the loop over the blocks
\* gave and o the offsets: NumberOfCells, the Cells arrays, faces and
\* faceoffsets if the mesh had the reserved key, and a CellData section if
\* cell data is left once that key is taken out.
WrittenPiece(mesh, o, t, num_points) ==
  [num_points |-> num_points,
   num_cells |-> SumSeq([k \in 1..Len(mesh.cells) |-> Len(mesh.cells[k].data)]),
   connectivity |-> Connectivity(mesh.cells),
   offsets |-> o.offsets,
   types |-> t.types,
   has_faces |-> mesh.cell_data.hasFoc,
   faces |-> t.faces,
   faceoffsets |-> t.faceoffsets,
   cd |-> raw_from_cell_data(mesh.cell_data.arrays),
   cell_faces |-> <<>>]

\* mesh.cell_data.pop("polyhedron:faces_of_cells", None)
Popped(mesh) == Mesh(mesh.cells, CellData(mesh.cell_data.arrays, FALSE, NoTagMap))

\* What write leaves: status, the piece in the file, whether the file has a
\* CellData section, and the mesh as the call leaves it: the reserved key is
\* put back only at the end of a call that raises nothing on its way.
WrittenMutant(mesh, o, t, num_points) ==
  [status |-> IF o.status # "ok" THEN o.status ELSE t.status,
   mesh |-> Popped(mesh),
   piece |-> WrittenPiece(mesh, o, t, num_points),
   has_cell_data |-> mesh.cell_data.arrays # EmptyDict]
Written(mesh, o, t, num_points) ==
  IF o.status # "ok"
  THEN [status |-> o.status, mesh |-> Popped(mesh)]
  ELSE IF t.status # "ok"
  THEN [status |-> t.status, mesh |-> Popped(mesh)]
  ELSE [status |-> "ok", mesh |-> mesh,
        piece |-> WrittenPiece(mesh, o, t, num_points),
        has_cell_data |-> mesh.cell_data.arrays # EmptyDict]

\* write, from the mesh to the piece (numpy.concatenate raises on an empty
\* list of blocks).
write(mesh, num_points) ==
  IF mesh.cells = <<>> THEN [status |-> "ValueError", mesh |-> Popped(mesh)]
  ELSE Written(mesh,
               OffsetsLoop(mesh.cells, 1, <<>>),
               TypesLoop([status |-> "ok", types |-> <<>>, faces |-> <<>>,
                          faceoffsets |-> <<>>],
                         mesh.cells, 1, mesh.cell_data.hasFoc, mesh.cell_data.foc),
               num_points)

\* ------------------------------------------------------------ documents read
\* The cells a piece may hold.  A cell is added with its type code and the
\* number of connectivity entries it takes; a polyhedron cell of a piece that
\* has the face arrays comes with its face list.
TypeCodes == {VTK_TRIANGLE, VTK_WEDGE, VTK_POLYGON, VTK_POLYHEDRON}
NodeCounts(code) ==
  CASE code = VTK_TRIANGLE -> {2, 3, 4}
    [] code = VTK_WEDGE -> {6}
    [] code = VTK_POLYGON -> {3, 4}
    [] code = VTK_POLYHEDRON -> {4}
\* Face lists over the points first, first + 1, ...: one triangle (three
\* distinct nodes), or two triangles sharing an edge (four distinct nodes).
\* Only a polyhedron cell of a piece with the face arrays has a face list.
FaceChoices(code, has_faces, first) ==
  IF code = VTK_POLYHEDRON /\ has_faces
  THEN {<< <<first, first + 1, first + 2>> >>,
        << <<first, first + 1, first + 2>>, <<first + 1, first + 2, first + 3>> >>}
  ELSE {<<>>}
\* The number of points a piece declares.
PointCounts == {30}

\* The blocks a mesh may hold, and the most blocks it holds.
MaxBlocks == 3
MeshTags ==
  {FixedTag("triangle"), FixedTag("wedge"), Tag("polygon", 3), Tag("polygon", 4),
   Tag("polyhedron", 3), Tag("polyhedron", 4)}
\* The columns of a block with the given tag.
TagCols(tag) == IF tag.n = 0 - 1 THEN num_nodes_per_cell[tag.name] ELSE tag.n

VARIABLES pieces, has_cell_data, pc, reader, mesh, raw, out, root

vars == <<pieces, has_cell_data, pc, reader, mesh, raw, out, root>>

NoMesh == Mesh(<<>>, EmptyCellData)
\* No appended data is being repaired, no array is being encoded.
NoRaw == [pc |-> "none"]
NoOut == [pc |-> "none"]
\* No root element is being searched for its grid.
NoRoot == [pc |-> "none"]

NumCells == SumSeq([p \in 1..Len(pieces) |-> Len(pieces[p].types)])

EmptyPiece(num_points, has_faces) ==
  [num_points |-> num_points, num_cells |-> 0, connectivity |-> <<>>,
   offsets |-> <<>>, types |-> <<>>, has_faces |-> has_faces, faces |-> <<>>,
   faceoffsets |-> <<>>, cd |-> [name \in {"a"} |-> <<>>], cell_faces |-> <<>>]

\* The piece with one more cell: the cell's points are the next `count`
\* points, its cell-data value tells the piece and the cell.  cell_faces
\* keeps, per cell, the face list that went into faces (it is no part of the
\* file).
PieceWithCell(piece, p, code, count, cell_faces) ==
  [piece EXCEPT
     !.num_cells = piece.num_cells + 1,
     !.connectivity = piece.connectivity
                      \o [j \in 1..count |-> Len(piece.connectivity) + j - 1],
     !.offsets = Append(piece.offsets, Len(piece.connectivity) + count),
     !.types = Append(piece.types, code),
     !.faces = IF code = VTK_POLYHEDRON /\ piece.has_faces
               THEN piece.faces \o <<Len(cell_faces)>> \o FlattenFaces(cell_faces)
               ELSE piece.faces,
     !.faceoffsets = IF code = VTK_POLYHEDRON /\ piece.has_faces
                     THEN Append(piece.faceoffsets,
                                 Len(piece.faces) + 1 + Len(FlattenFaces(cell_faces)))
                     ELSE piece.faceoffsets,
     !.cd = [name \in DOMAIN piece.cd |->
               Append(piece.cd[name], 10 * p + piece.num_cells)],
     !.cell_faces = Append(piece.cell_faces, cell_faces)]

ReadInit ==
  /\ pieces = <<>>
  /\ has_cell_data \in BOOLEAN
  /\ pc = "build"
  /\ reader = Raised("none")
  /\ mesh = NoMesh
  /\ raw = NoRaw
  /\ root = NoRoot
  /\ out = NoOut

AddPiece ==
  /\ pc = "build"
  /\ Len(pieces) < MaxPieces
  /\ \E num_points \in PointCounts, has_faces \in BOOLEAN :
       pieces' = Append(pieces, EmptyPiece(num_points, has_faces))
  /\ UNCHANGED <<has_cell_data, pc, reader, mesh, raw, out, root>>

AddCell ==
  /\ pc = "build"
  /\ pieces # <<>>
  /\ NumCells < MaxCells
  /\ \E code \in TypeCodes :
       \E count \in NodeCounts(code) :
         \E cell_faces \in FaceChoices(code, pieces[Len(pieces)].has_faces,
                                       Len(pieces[Len(pieces)].connectivity)) :
           pieces' = [pieces EXCEPT ![Len(pieces)] =
                        PieceWithCell(pieces[Len(pieces)], Len(pieces), code,
                                      count, cell_faces)]
  /\ UNCHANGED <<has_cell_data, pc, reader, mesh, raw, out, root>>

\* read(): VtuReader(filename), up to the cells and the cell data.
Read ==
  /\ pc \in {"build", "written"}
  /\ reader' = VtuReaderInit(pieces, has_cell_data)
  /\ pc' = "read"
  /\ UNCHANGED <<pieces, has_cell_data, mesh, raw, out, root>>

ReadNext == AddPiece \/ AddCell \/ Read

SpecRead == ReadInit /\ [][ReadNext]_vars

\* ------------------------------------------------------------ meshes written
\* The face list of a polyhedron cell on the points first, first + 1, ...:
\* one triangle for three points, two triangles for four.
MeshCellFaces(tag, first) ==
  IF tag.n = 3 THEN << <<first, first + 1, first + 2>> >>
  ELSE << <<first, first + 1, first + 2>>, <<first + 1, first + 2, first + 3>> >>

NumMeshCells == SumSeq([k \in 1..Len(mesh.cells) |-> Len(mesh.cells[k].data)])
NumMeshNodes ==
  SumSeq([k \in 1..Len(mesh.cells) |->
            Len(mesh.cells[k].data) * TagCols(mesh.cells[k].type)])

\* The face-list mapping with an entry for one more block: None for a block
\* that is no polyhedron block, a list of face lists otherwise.
FocWithBlock(foc, tag) ==
  IF tag \in DOMAIN foc THEN foc
  ELSE [t \in (DOMAIN foc) \cup {tag} |->
          IF t # tag THEN foc[t]
          ELSE IF tag.name = "polyhedron" THEN FaceLists(<<>>) ELSE NoFaces]
\* The face-list mapping with the face list of one more cell of `tag`.
FocWithCell(foc, tag, first) ==
  IF tag.name # "polyhedron" THEN foc
  ELSE [foc EXCEPT ![tag] =
          FaceLists(Append(foc[tag].cells, MeshCellFaces(tag, first)))]

MeshWithBlock(m, tag) ==
  Mesh(Append(m.cells, CellBlock(tag, <<>>)),
       CellData([name \in DOMAIN m.cell_data.arrays |->
                   Append(m.cell_data.arrays[name], <<>>)],
                m.cell_data.hasFoc,
                IF m.cell_data.hasFoc THEN FocWithBlock(m.cell_data.foc, tag)
                ELSE m.cell_data.foc))

\* The mesh with one more cell in its last block: the cell's points are the
\* next points, its cell-data value is its number among the cells.
MeshWithCell(m, first, number) ==
  Mesh([m.cells EXCEPT ![Len(m.cells)].data =
          Append(m.cells[Len(m.cells)].data,
                 [j \in 1..TagCols(m.cells[Len(m.cells)].type) |-> first + j - 1])],
       CellData([name \in DOMAIN m.cell_data.arrays |->
                   [m.cell_data.arrays[name] EXCEPT ![Len(m.cells)] =
                      Append(m.cell_data.arrays[name][Len(m.cells)], 10 + number)]],
                m.cell_data.hasFoc,
                IF m.cell_data.hasFoc
                THEN FocWithCell(m.cell_data.foc, m.cells[Len(m.cells)].type, first)
                ELSE m.cell_data.foc))

MeshInit ==
  /\ pieces = <<>>
  /\ has_cell_data = FALSE
  /\ pc = "mesh"
  /\ reader = Raised("none")
  /\ raw = NoRaw
  /\ root = NoRoot
  /\ out = NoOut
  /\ \E has_a \in BOOLEAN, has_foc \in BOOLEAN :
       mesh = Mesh(<<>>, CellData(IF has_a THEN [name \in {"a"} |-> <<>>]
                                  ELSE EmptyDict,
                                  has_foc, NoTagMap))

AddBlock ==
  /\ pc = "mesh"
  /\ Len(mesh.cells) < MaxBlocks
  /\ \E tag \in MeshTags : mesh' = MeshWithBlock(mesh, tag)
  /\ UNCHANGED <<pieces, has_cell_data, pc, reader, raw, out, root>>

AddMeshCell ==
  /\ pc = "mesh"
  /\ mesh.cells # <<>>
  /\ NumMeshCells < MaxCells
  /\ mesh' = MeshWithCell(mesh, NumMeshNodes, NumMeshCells)
  /\ UNCHANGED <<pieces, has_cell_data, pc, reader, raw, out, root>>

\* write(filename, mesh): the file holds one piece, or the call raises.
WriteDone(w) ==
  /\ mesh' = w.mesh
  /\ UNCHANGED <<raw, out, root>>
  /\ IF w.status = "ok"
     THEN /\ pieces' = <<w.piece>>
          /\ has_cell_data' = w.has_cell_data
          /\ pc' = "written"
          /\ reader' = reader
     ELSE /\ pc' = "write raised"
          /\ reader' = Raised(w.status)
          /\ UNCHANGED <<pieces, has_cell_data>>

WriteMesh ==
  /\ pc = "mesh"
  /\ \E num_points \in PointCounts : WriteDone(write(mesh, num_points))

RoundTripNext == AddBlock \/ AddMeshCell \/ WriteMesh \/ Read

SpecRoundTrip == MeshInit /\ [][RoundTripNext]_vars

\* ------------------------------------------------------------ claims on reading
ReadOK == pc = "read" /\ reader.status = "ok"
OnePiece == Len(pieces) = 1

IsFixedCode(code) == code \in {VTK_TRIANGLE, VTK_WEDGE}
FixedOnly(types) == \A i \in 1..Len(types) : IsFixedCode(types[i])
HasCode(piece, code) == \E i \in 1..Len(piece.types) : piece.types[i] = code

\* The maximal runs of equal codes of a types array, first to last, each with
\* its code and its number of cells.
RECURSIVE RunsOf(_)
RunsOf(types) ==
  IF types = <<>> THEN <<>>
  ELSE LET rest == RunsOf(Tail(types))
       IN IF rest # <<>> /\ rest[1].code = Head(types)
          THEN <<[code |-> Head(types), count |-> rest[1].count + 1]>> \o Tail(rest)
          ELSE <<[code |-> Head(types), count |-> 1]>> \o rest

\* The number of cells before run i.
RunStart(runs, i) == SumSeq([k \in 1..(i - 1) |-> runs[k].count])

\* The number of connectivity entries of cell c (1-based) of a piece.
CellSize(piece, c) ==
  piece.offsets[c] - (IF c = 1 THEN 0 ELSE piece.offsets[c - 1])

\* The number of blocks run k of a piece is read into: one for a fixed
\* shape, one per distinct cell size otherwise.
BlocksOfRun(piece, runs, k) ==
  IF IsFixedCode(runs[k].code) THEN 1
  ELSE Cardinality({CellSize(piece, RunStart(runs, k) + c) : c \in 1..runs[k].count})
BlocksBefore(piece, runs, i) ==
  SumSeq([k \in 1..(i - 1) |-> BlocksOfRun(piece, runs, k)])

\* A piece whose polyhedron cells each come with a face list that has as many
\* distinct nodes as the cell has connectivity entries.
Consistent(piece) ==
  \A c \in 1..Len(piece.types) :
    piece.types[c] = VTK_POLYHEDRON =>
      /\ piece.has_faces
      /\ NumNodesThisCell(piece.cell_faces[c]) = CellSize(piece, c)

\* A piece each of whose cells lists as many connectivity entries as its shape
\* has nodes.
WellFormed(piece) ==
  /\ Consistent(piece)
  /\ \A c \in 1..Len(piece.types) :
       IsFixedCode(piece.types[c]) =>
         CellSize(piece, c) = num_nodes_per_cell[vtk_to_meshio_type[piece.types[c]]]
AllWellFormed == \A p \in 1..Len(pieces) : WellFormed(pieces[p])

\* C2: a piece of fixed-shape cells is read into one block per maximal run of
\* equal type codes, in the order of the runs, block i with the shape and the
\* number of cells of run i; runs of the same code that another run
\* separates stay separate blocks.
C2_OneBlockPerRun ==
  (ReadOK /\ OnePiece /\ FixedOnly(pieces[1].types)) =>
    /\ Len(reader.cells) = Len(RunsOf(pieces[1].types))
    /\ \A i \in 1..Len(reader.cells) :
         /\ reader.cells[i].type =
              FixedTag(vtk_to_meshio_type[RunsOf(pieces[1].types)[i].code])
         /\ Len(reader.cells[i].data) = RunsOf(pieces[1].types)[i].count

\* A triangle, a wedge and a triangle again have been read into three blocks.
C2_Witness ==
  /\ ReadOK /\ OnePiece
  /\ pieces[1].types = <<VTK_TRIANGLE, VTK_WEDGE, VTK_TRIANGLE>>
  /\ Len(reader.cells) = 3
  /\ reader.cells[1].type = reader.cells[3].type

\* C3: when a piece carries the arrays faces and faceoffsets, the cell data
\* read has no ordinary entry named faces or faceoffsets (stated for pieces
\* whose cells are well formed).
C3_NoReservedArrays ==
  (ReadOK /\ AllWellFormed /\ \E p \in 1..Len(pieces) : pieces[p].has_faces) =>
    {"faces", "faceoffsets"} \cap DOMAIN reader.cell_data.arrays = {}

\* C4: after a read, every ordinary cell-data name has one array per cell
\* block, in the order of the blocks, array k with one entry per cell of
\* block k (stated for pieces whose cells are well formed).
C4_OneArrayPerBlock ==
  (ReadOK /\ AllWellFormed) =>
    \A name \in (DOMAIN reader.cell_data.arrays) \ {"faces", "faceoffsets"} :
      /\ Len(reader.cell_data.arrays[name]) = Len(reader.cells)
      /\ \A k \in 1..Len(reader.cells) :
           k <= Len(reader.cell_data.arrays[name]) =>
             Len(reader.cell_data.arrays[name][k]) = Len(reader.cells[k].data)

\* C5: every polyhedron block is tagged with the number of distinct nodes of
\* the faces of its cells, and the face-list mapping holds under that tag one
\* face list per cell of the block (stated for a piece whose cells are well
\* formed: a polyhedron cell lists as many connectivity entries as its faces
\* have distinct nodes).
C5_TagCountsFaceNodes ==
  (ReadOK /\ OnePiece /\ WellFormed(pieces[1])) =>
    \A i \in 1..Len(reader.cells) :
      reader.cells[i].type.name = "polyhedron" =>
        /\ reader.cell_data.hasFoc
        /\ reader.cells[i].type \in DOMAIN reader.cell_data.foc
        /\ ~reader.cell_data.foc[reader.cells[i].type].isNone
        /\ Len(reader.cell_data.foc[reader.cells[i].type].cells)
             = Len(reader.cells[i].data)
        /\ \A c \in 1..Len(reader.cell_data.foc[reader.cells[i].type].cells) :
             NumNodesThisCell(reader.cell_data.foc[reader.cells[i].type].cells[c])
               = reader.cells[i].type.n

\* C7: a piece with a polyhedron cell and no faces/faceoffsets arrays ends
\* the call with the error declared for a missing faces specification
\* (ValueError), and no blocks are returned.
C7_MissingFacesIsDeclaredError ==
  (pc = "read" /\ OnePiece /\ ~pieces[1].has_faces
     /\ HasCode(pieces[1], VTK_POLYHEDRON)) =>
    /\ reader.status = "ValueError"
    /\ reader.cells = <<>>

\* C9: if a piece of the grid has a polyhedron cell, the face-list mapping
\* exists and has an entry under the tag of every block read, over all
\* pieces: face lists for a polyhedron block, the empty entry for any other
\* (stated for pieces whose cells are well formed).
C9_FaceEntryForEveryBlock ==
  (ReadOK /\ AllWellFormed
     /\ \E p \in 1..Len(pieces) : HasCode(pieces[p], VTK_POLYHEDRON)) =>
    /\ reader.cell_data.hasFoc
    /\ \A i \in 1..Len(reader.cells) :
         /\ reader.cells[i].type \in DOMAIN reader.cell_data.foc
         /\ reader.cell_data.foc[reader.cells[i].type].isNone
              <=> (reader.cells[i].type.name # "polyhedron")

\* Row c of the block of fixed run i, read from the connectivity positions
\* first(c) + order[j].
RowsFrom(piece, blk, runs, i, first(_)) ==
  \A c \in 1..runs[i].count :
    \A j \in 1..num_nodes_per_cell[vtk_to_meshio_type[runs[i].code]] :
      /\ IndexOK(piece.connectivity,
                 first(RunStart(runs, i) + c)
                   + _vtk_to_meshio_order(
                       runs[i].code,
                       num_nodes_per_cell[vtk_to_meshio_type[runs[i].code]])[j])
      /\ blk.data[c][j] =
           At(piece.connectivity,
              first(RunStart(runs, i) + c)
                + _vtk_to_meshio_order(
                       runs[i].code,
                       num_nodes_per_cell[vtk_to_meshio_type[runs[i].code]])[j])

\* The block of fixed run i of a piece: one row per cell, the rows read from
\* first(c), and per cell-data name the values of the run's cells in order.
FixedBlockIs(piece, runs, i, first(_)) ==
  /\ BlocksBefore(piece, runs, i) < Len(reader.cells)
  /\ Len(reader.cells[BlocksBefore(piece, runs, i) + 1].data) = runs[i].count
  /\ \A c \in 1..runs[i].count :
       Len(reader.cells[BlocksBefore(piece, runs, i) + 1].data[c])
         = num_nodes_per_cell[vtk_to_meshio_type[runs[i].code]]
  /\ RowsFrom(piece, reader.cells[BlocksBefore(piece, runs, i) + 1], runs, i, first)
  /\ has_cell_data =>
       /\ "a" \in DOMAIN reader.cell_data.arrays
       /\ reader.cell_data.arrays["a"][BlocksBefore(piece, runs, i) + 1]
            = SubSeq(piece.cd["a"], RunStart(runs, i) + 1,
                     RunStart(runs, i) + runs[i].count)

FixedBlocksAre(piece, runs, first(_)) ==
  \A i \in 1..Len(runs) :
    IsFixedCode(runs[i].code) => FixedBlockIs(piece, runs, i, first)

\* C10 as stated: row c of the block of a fixed run starts at the offset of
\* the cell before c (0 for the first cell of the piece).
C10_RowsFromPrecedingOffset ==
  (ReadOK /\ OnePiece) =>
    LET PrecedingOffset(c) == IF c = 1 THEN 0 ELSE pieces[1].offsets[c - 1]
    IN FixedBlocksAre(pieces[1], RunsOf(pieces[1].types), PrecedingOffset)

\* C10, amended: row c of the block of a fixed run with node count n is
\* connectivity[e - n + perm[j]], j in 0..n-1, e being the offset of c
\* itself (a negative position counts from the end of connectivity); the
\* block has one row per cell of the run and each raw cell-data array gives
\* the block the values of the run's cells, in cell order.
C10_RowsFromOwnOffset ==
  (ReadOK /\ OnePiece) =>
    LET OwnOffsetLessN(c) ==
          pieces[1].offsets[c]
            - num_nodes_per_cell[vtk_to_meshio_type[pieces[1].types[c]]]
    IN FixedBlocksAre(pieces[1], RunsOf(pieces[1].types), OwnOffsetLessN)

\* A wedge and two triangles, the second of them with a connectivity entry
\* too many, have been read with their cell data.
C10_Witness ==
  /\ ReadOK /\ OnePiece /\ has_cell_data
  /\ pieces[1].types = <<VTK_WEDGE, VTK_TRIANGLE, VTK_TRIANGLE>>
  /\ pieces[1].offsets = <<6, 9, 13>>
  /\ Len(reader.cells) = 2
  /\ reader.cells[2].data = << <<6, 7, 8>>, <<10, 11, 12>> >>

\* The cells (1-based, in file order) of run i that take sz connectivity
\* entries, and the distinct sizes of the run in ascending order.
CellsOfSize(piece, runs, i, sz) ==
  SortedSeq({c \in (RunStart(runs, i) + 1)..(RunStart(runs, i) + runs[i].count) :
               CellSize(piece, c) = sz})
SizesOfRun(piece, runs, i) ==
  SortedSeq({CellSize(piece, c) :
               c \in (RunStart(runs, i) + 1)..(RunStart(runs, i) + runs[i].count)})

\* The connectivity entries of cell c, in file order.
EntriesOfCell(piece, c) ==
  SubSeq(piece.connectivity, piece.offsets[c] - CellSize(piece, c) + 1,
         piece.offsets[c])

\* Block blk, with the cell-data array `values`, holds the cells of run i
\* that have size sz: tag, rows and values in file order.
PolygonBlockIs(piece, blk, values, runs, i, sz) ==
  /\ blk.type = Tag("polygon", sz)
  /\ blk.data = [r \in 1..Len(CellsOfSize(piece, runs, i, sz)) |->
                   EntriesOfCell(piece, CellsOfSize(piece, runs, i, sz)[r])]
  /\ values = [r \in 1..Len(CellsOfSize(piece, runs, i, sz)) |->
                 piece.cd["a"][CellsOfSize(piece, runs, i, sz)[r]]]

\* C11: the blocks read from a polygon run partition the cells of the run by
\* size: one block per distinct size (in ascending size), tagged polygon +
\* size, holding the cells of that size in file order, and the cell-data
\* array attached to the block holds the values of those cells in the same
\* order.
C11_PolygonRunPartitioned ==
  (ReadOK /\ OnePiece /\ has_cell_data) =>
    \A i \in 1..Len(RunsOf(pieces[1].types)) :
      RunsOf(pieces[1].types)[i].code = VTK_POLYGON =>
        \A j \in 1..Len(SizesOfRun(pieces[1], RunsOf(pieces[1].types), i)) :
          /\ BlocksBefore(pieces[1], RunsOf(pieces[1].types), i) + j
               <= Len(reader.cells)
          /\ "a" \in DOMAIN reader.cell_data.arrays
          /\ PolygonBlockIs(
               pieces[1],
               reader.cells[BlocksBefore(pieces[1], RunsOf(pieces[1].types), i) + j],
               reader.cell_data.arrays["a"]
                 [BlocksBefore(pieces[1], RunsOf(pieces[1].types), i) + j],
               RunsOf(pieces[1].types), i,
               SizesOfRun(pieces[1], RunsOf(pieces[1].types), i)[j])

\* A polygon run with cells of 4, 3 and 4 nodes has been read into a block
\* polygon3 of one cell and a block polygon4 of two.
C11_Witness ==
  /\ ReadOK /\ OnePiece /\ has_cell_data
  /\ pieces[1].types = <<VTK_POLYGON, VTK_POLYGON, VTK_POLYGON>>
  /\ pieces[1].offsets = <<4, 7, 11>>
  /\ Len(reader.cells) = 2
  /\ reader.cells[2].data = << <<0, 1, 2, 3>>, <<7, 8, 9, 10>> >>
  /\ reader.cell_data.arrays["a"] = << <<11>>, <<10, 12>> >>

\* The number of blocks a piece is read into, and the number of blocks read
\* from the pieces before piece p.
BlocksOfPiece(piece) ==
  BlocksBefore(piece, RunsOf(piece.types), Len(RunsOf(piece.types)) + 1)
BlocksBeforePiece(p) == SumSeq([q \in 1..(p - 1) |-> BlocksOfPiece(pieces[q])])

PointsBefore(p) == SumSeq([q \in 1..(p - 1) |-> pieces[q].num_points])

\* Every index of the block is a connectivity entry of the piece plus the
\* number of points of the pieces before it, and is below the total number
\* of points if the entry is below the number of points of the piece.
BlockIsOfPiece(blk, p) ==
  \A r \in 1..Len(blk.data) : \A j \in 1..Len(blk.data[r]) :
    /\ \E i \in 1..Len(pieces[p].connectivity) :
         blk.data[r][j] = pieces[p].connectivity[i] + PointsBefore(p)
    /\ blk.data[r][j] - PointsBefore(p) < pieces[p].num_points
         => blk.data[r][j] < PointsBefore(Len(pieces) + 1)

\* C15: a document of several pieces is read into the blocks of piece 1,
\* then those of piece 2, and so on, blocks of different pieces staying
\* apart; the blocks of piece p hold the cells of piece p, every index being
\* the piece's own index plus the number of points of the pieces before p.
C15_PiecesInOrderAndShifted ==
  ReadOK =>
    /\ Len(reader.cells) = BlocksBeforePiece(Len(pieces) + 1)
    /\ \A p \in 1..Len(pieces) :
         /\ \A b \in (BlocksBeforePiece(p) + 1)..BlocksBeforePiece(p + 1) :
              b <= Len(reader.cells) => BlockIsOfPiece(reader.cells[b], p)
         /\ BlocksBeforePiece(p + 1) <= Len(reader.cells) =>
              SumSeq([b \in 1..BlocksOfPiece(pieces[p]) |->
                        Len(reader.cells[BlocksBeforePiece(p) + b].data)])
                = Len(pieces[p].types)

\* Two pieces of one triangle each have been read into two triangle blocks,
\* the second on the points 30, 31, 32.
C15_Witness ==
  /\ ReadOK
  /\ Len(pieces) = 2
  /\ pieces[1].types = <<VTK_TRIANGLE>> /\ pieces[2].types = <<VTK_TRIANGLE>>
  /\ Len(reader.cells) = 2
  /\ reader.cells[1].data = << <<0, 1, 2>> >>
  /\ reader.cells[2].data = << <<30, 31, 32>> >>

\* ------------------------------------------------------------ claims on the round trip
\* The mesh is a sequence of non-empty blocks.
NonEmptyBlocks ==
  /\ mesh.cells # <<>>
  /\ \A k \in 1..Len(mesh.cells) : mesh.cells[k].data # <<>>

\* Two blocks that follow one another and are written with the same type
\* code are read back apart only if they are polygon blocks, or polyhedron
\* blocks, the first with fewer nodes than the second.
ReadBackApart(v, w) ==
  \/ TypeKey(v.type) # TypeKey(w.type)
  \/ /\ v.type.name \in {"polygon", "polyhedron"}
     /\ v.type.n < w.type.n
KeepsItsBlocks ==
  \A k \in 1..(Len(mesh.cells) - 1) : ReadBackApart(mesh.cells[k], mesh.cells[k + 1])

\* With the reserved key in the mesh's cell data, every polygon block comes
\* after a polyhedron block.
PolygonsAfterFaces ==
  mesh.cell_data.hasFoc =>
    \A i \in 1..Len(mesh.cells) :
      mesh.cells[i].type.name = "polygon" =>
        \E j \in 1..(i - 1) : mesh.cells[j].type.name = "polyhedron"

SameBlocks == reader.status = "ok" /\ reader.cells = mesh.cells

RECURSIVE FaceListsOfMesh(_, _)
FaceListsOfMesh(cells, k) ==
  IF k > Len(cells) THEN <<>>
  ELSE (IF cells[k].type.name = "polyhedron"
        THEN [r \in 1..Len(cells[k].data) |->
                MeshCellFaces(cells[k].type, cells[k].data[r][1])]
        ELSE <<>>)
       \o FaceListsOfMesh(cells, k + 1)

\* The reader's walk over the face arrays of a piece: start offsets 0 and
\* faceoffsets without its last entry.
WalkOfPiece(piece) ==
  FacesOfCellsLoop(piece.faces, <<0>> \o PySlice(piece.faceoffsets, 0, 0 - 1), <<>>)

\* The entries of faces the cells up to and including cell c take.
EntriesUpTo(lists, c) ==
  SumSeq([q \in 1..c |-> 1 + Len(FlattenFaces(lists[q]))])

HasPolyhedronCell ==
  \E k \in 1..Len(mesh.cells) :
    mesh.cells[k].type.name = "polyhedron" /\ mesh.cells[k].data # <<>>

\* C12: the faces and faceoffsets arrays written for the polyhedron blocks
\* of a mesh, walked as the reader walks them, give for each cell in cell
\* order its list of faces, and faceoffsets entry c is the number of entries
\* of faces taken by the cells up to and including c (stated for meshes of
\* non-empty blocks).
C12_FaceArraysWalkBack ==
  (pc = "written" /\ NonEmptyBlocks /\ mesh.cell_data.hasFoc /\ HasPolyhedronCell) =>
    /\ WalkOfPiece(pieces[1]).err = "ok"
    /\ Len(WalkOfPiece(pieces[1]).val) = Len(FaceListsOfMesh(mesh.cells, 1))
    /\ \A c \in 1..Len(FaceListsOfMesh(mesh.cells, 1)) :
         /\ c <= Len(WalkOfPiece(pieces[1]).val)
         /\ WalkOfPiece(pieces[1]).val[c].faces = FaceListsOfMesh(mesh.cells, 1)[c]
         /\ c <= Len(pieces[1].faceoffsets)
         /\ pieces[1].faceoffsets[c] = EntriesUpTo(FaceListsOfMesh(mesh.cells, 1), c)

\* C16: a call of write that returns for a mesh whose cell data holds the
\* reserved key leaves the mesh with that key and the same face lists and
\* with every other cell-data name; the CellData section written holds the
\* other names and no array for the reserved key (no section at all when
\* there is no other name).
C16_ReservedKeyRestored ==
  [][(pc = "mesh" /\ pc' = "written" /\ mesh.cell_data.hasFoc) =>
       /\ mesh'.cell_data.hasFoc
       /\ mesh'.cell_data.foc = mesh.cell_data.foc
       /\ mesh'.cell_data.arrays = mesh.cell_data.arrays
       /\ mesh'.cells = mesh.cells
       /\ DOMAIN pieces'[1].cd = DOMAIN mesh.cell_data.arrays
       /\ has_cell_data' = (DOMAIN mesh.cell_data.arrays # {})]_vars

\* A mesh with a polyhedron block of one cell, its face list under the
\* reserved key and a cell-data array has been written.
C16_Witness ==
  /\ pc = "written"
  /\ mesh.cell_data.hasFoc
  /\ "a" \in DOMAIN mesh.cell_data.arrays
  /\ Len(mesh.cells) = 1
  /\ mesh.cells[1].type = Tag("polyhedron", 4)
  /\ Len(mesh.cells[1].data) = 1
  /\ pieces[1].cd["a"] = <<10>>

\* Per cell of the mesh, in block order, the number of nodes of the cell.
NodeCountsOfMesh ==
  Concatenate([k \in 1..Len(mesh.cells) |->
                 [r \in 1..Len(mesh.cells[k].data) |-> TagCols(mesh.cells[k].type)]])

\* Every polyhedron block comes with the face-list mapping.
FacesGiven ==
  (\E k \in 1..Len(mesh.cells) : mesh.cells[k].type.name = "polyhedron")
    => mesh.cell_data.hasFoc

\* C17: for every non-empty sequence of blocks handed to write, blocks
\* without cells included, the call returns and the arrays written have:
\* as many offsets and as many types as NumberOfCells, the sum of the
\* blocks' cell counts; each offset less the one before (0 before the first)
\* equal to the node count of the cell; the last offset equal to the length
\* of connectivity.
C17_FlattenedArraysConsistent ==
  (pc \in {"written", "write raised"} /\ mesh.cells # <<>> /\ FacesGiven) =>
    /\ pc = "written"
    /\ pieces[1].num_cells = NumMeshCells
    /\ Len(pieces[1].offsets) = pieces[1].num_cells
    /\ Len(pieces[1].types) = pieces[1].num_cells
    /\ \A c \in 1..Len(pieces[1].offsets) :
         CellSize(pieces[1], c) = NodeCountsOfMesh[c]
    /\ pieces[1].offsets # <<>> =>
         pieces[1].offsets[Len(pieces[1].offsets)] = Len(pieces[1].connectivity)

\* ------------------------------------------------------------ appended data repaired
MaxSegments == 3

\* The byte lengths of the payloads of the segments, and the sizes of the
\* compressed blocks a payload may come in.
PayloadLens == {0, 4, 8}
BlockSizes(payload) ==
  IF payload = 0 THEN {<<>>}
  ELSE IF payload = 4 THEN {<<12>>}
  ELSE {<<16>>, <<12, 12>>}
\* The bytes per header integer: UInt32 unless the root declares UInt64.
HeaderItemsizes == {4, 8}

\* base64.b64encode(b).decode(): the number of characters for a byte count.
B64Len(num_bytes) == 4 * ((num_bytes + 2) \div 3)

\* A segment of the data: the first header integer as the header type reads
\* it, the bytes of the flat payload and the sizes of the compressed blocks.
Segment(first, payload, blocks) ==
  [first |-> first, payload |-> payload, blocks |-> blocks]

\* The bytes a segment takes in the raw data: [num_blocks, max_block_size,
\* last_block_size, block sizes...] and the blocks if compressed, the byte
\* count and the payload otherwise.
SegBytes(seg, compressed, itemsize) ==
  IF compressed THEN (3 + Len(seg.blocks)) * itemsize + SumSeq(seg.blocks)
  ELSE itemsize + seg.payload

\* The characters a segment adds to arrays: base64 of the byte count and the
\* flat payload.
EncodedLen(seg, compressed, itemsize) ==
  IF compressed THEN B64Len(itemsize + seg.payload)
  ELSE B64Len(itemsize + seg.first)

\* What one pass adds to i: j + num_header_bytes with the blocks of
\* range(num_blocks), block_size + dtype.itemsize otherwise.
Advance(seg, compressed, itemsize) ==
  IF compressed
  THEN SumSeq(SubSeq(seg.blocks, 1, seg.first)) + (3 + seg.first) * itemsize
  ELSE seg.first + itemsize

DataLen(segs, compressed, itemsize) ==
  SumSeq([k \in 1..Len(segs) |-> SegBytes(segs[k], compressed, itemsize)])

\* root.find(".//DataArray[@offset='%d']" % i): the first descriptor in
\* document order whose offset attribute is i, 0 for None.
Find(offsets, i) ==
  IF \E k \in 1..Len(offsets) : offsets[k] = i
  THEN CHOOSE k \in 1..Len(offsets) :
         /\ offsets[k] = i
         /\ \A m \in 1..(k - 1) : offsets[m] # i
  ELSE 0

\* A raw document: the header integers' size and whether the header type
\* is a signed kind (vtu_to_numpy_type has both), the compressor attribute of
\* the root, the segments of the appended data and, in document order, the
\* offset attributes of the data-array descriptors.  `taken` says whether the
\* compressed branch runs, `seen` counts the segments walked and `writes`
\* how often each descriptor's offset has been set (2 for twice or more).
RawDocument(itemsize, signed, compressor) ==
  [pc |-> "blob", itemsize |-> itemsize, signed |-> signed,
   compressor |-> compressor,
   taken |-> compressor, segs |-> <<>>, offsets |-> <<>>, writes |-> <<>>,
   i |-> 0, arrays |-> 0, seen |-> 0, status |-> "ok"]

\* Bytes whose first header integer is negative under a signed header type:
\* minus three blocks, minus one header integer of payload.
NegativeSegment(compressed, itemsize) ==
  Segment(IF compressed THEN 0 - 3 ELSE 0 - itemsize, 0, <<>>)

RawWithSegment(r, seg) ==
  [r EXCEPT !.segs = Append(r.segs, seg),
            !.offsets = Append(r.offsets, DataLen(r.segs, r.taken, r.itemsize)),
            !.writes = Append(r.writes, 0)]

\* Up to the loops: the compressor attribute is popped, arrays = "", i = 0.
RawStarted(r) ==
  [r EXCEPT !.pc = "parse", !.compressor = FALSE, !.i = 0, !.arrays = 0]

\* One pass of the while loop, on the descriptor `found`.
RawStep(r, found) ==
  IF found = 0
  THEN [r EXCEPT !.pc = "raised", !.status = "AttributeError"]
  ELSE [r EXCEPT
          !.offsets[found] = r.arrays,
          !.writes[found] = Min(r.writes[found] + 1, 2),
          !.arrays =
            r.arrays + EncodedLen(r.segs[r.seen + 1], r.taken, r.itemsize),
          !.i = r.i + Advance(r.segs[r.seen + 1], r.taken, r.itemsize),
          !.seen =
            IF Advance(r.segs[r.seen + 1], r.taken, r.itemsize) = 0
            THEN r.seen ELSE r.seen + 1]

RawInit ==
  /\ pieces = <<>>
  /\ has_cell_data = FALSE
  /\ pc = "raw"
  /\ reader = Raised("none")
  /\ mesh = NoMesh
  /\ out = NoOut
  /\ root = NoRoot
  /\ \E itemsize \in HeaderItemsizes, signed, compressor \in BOOLEAN :
       raw = RawDocument(itemsize, signed, compressor)

AddSegment ==
  /\ raw.pc = "blob"
  /\ Len(raw.segs) < MaxSegments
  /\ \/ \E payload \in PayloadLens :
          \E blocks \in (IF raw.taken THEN BlockSizes(payload) ELSE {<<>>}) :
            raw' = RawWithSegment(raw,
                     Segment(IF raw.taken THEN Len(blocks) ELSE payload,
                             payload, blocks))
     \/ /\ raw.signed
        /\ raw' = RawWithSegment(raw, NegativeSegment(raw.taken, raw.itemsize))
  /\ UNCHANGED <<pieces, has_cell_data, pc, reader, mesh, out, root>>

StartParse ==
  /\ raw.pc = "blob"
  /\ raw' = RawStarted(raw)
  /\ UNCHANGED <<pieces, has_cell_data, pc, reader, mesh, out, root>>

ParseSegment ==
  /\ raw.pc = "parse"
  /\ raw.i < DataLen(raw.segs, raw.taken, raw.itemsize)
  /\ raw' = RawStep(raw, Find(raw.offsets, raw.i))
  /\ UNCHANGED <<pieces, has_cell_data, pc, reader, mesh, out, root>>

\* The loop is left, the text of the appended data is set, root is returned.
FinishParse ==
  /\ raw.pc = "parse"
  /\ raw.i >= DataLen(raw.segs, raw.taken, raw.itemsize)
  /\ raw' = [raw EXCEPT !.pc = "done"]
  /\ UNCHANGED <<pieces, has_cell_data, pc, reader, mesh, out, root>>

RawNext == AddSegment \/ StartParse \/ ParseSegment \/ FinishParse

SpecRaw == RawInit /\ [][RawNext]_vars

\* A started scan goes on: the loop is one thread of control.
SpecRawLive ==
  SpecRaw /\ WF_vars(StartParse) /\ WF_vars(ParseSegment) /\ WF_vars(FinishParse)

\* The characters of the re-encoded segments before segment k.
NewOffset(r, k) ==
  SumSeq([m \in 1..(k - 1) |-> EncodedLen(r.segs[m], r.taken, r.itemsize)])

\* C6: after _parse_raw_binary has run, the descriptor whose offset was the
\* start of segment k carries the total base64 length of the re-encoded
\* segments before k, every descriptor has been rewritten once and only
\* once, and the root has no compressor attribute.
C6_OffsetsRewrittenOnce ==
  (raw.pc = "done" /\ ~raw.signed) =>
    /\ ~raw.compressor
    /\ \A k \in 1..Len(raw.segs) :
         /\ raw.offsets[k] = NewOffset(raw, k)
         /\ raw.writes[k] = 1

\* C18: the segment scan of _parse_raw_binary terminates for every raw
\* appended byte run, compressed or not: a started scan ends, either with
\* the loop left or with an error.
C18_ScanTerminates ==
  (raw.pc = "parse") ~> (raw.pc \in {"done", "raised"})

\* ------------------------------------------------------------ array headers written
MaxArrays == 2

\* The byte counts of the arrays a mesh gives write, around the block size.
ByteCounts == {0, 12, 32768, 32780}
HeaderTypes == {"UInt32", "UInt64"}
\* vtu_to_numpy_type[name].itemsize, for the unsigned kinds used in headers.
vtu_to_numpy_itemsize == [name \in HeaderTypes |-> IF name = "UInt32" THEN 4 ELSE 8]

max_block_size == 32768

\* Element.set(key, value) of meshio._cxml.etree, which is not among the
\* sources at hand: the attribute is stored and, as with xml.etree, the call
\* returns None.
ElementSet(attrib, key, value) ==
  [attrib |-> DictSet(attrib, key, value), result |-> "None"]

\* _chunk_it(array, n): the lengths of the chunks yielded from chunk k on.
RECURSIVE _chunk_it(_, _, _)
_chunk_it(num_bytes, n, k) ==
  IF k * n < num_bytes
  THEN <<Min(num_bytes, (k + 1) * n) - k * n>> \o _chunk_it(num_bytes, n, k + 1)
  ELSE <<>>

\* len(c.compress(block)) for a block: short for a block that compresses
\* well, longer than the block for one that does not.
CompressedSizes(block_len) == {8 + block_len \div 64, 11 + block_len}
CompressedBlocks(chunks) ==
  {sizes \in [1..Len(chunks) -> UNION {CompressedSizes(chunks[k]) : k \in 1..Len(chunks)}] :
     \A k \in 1..Len(chunks) : sizes[k] \in CompressedSizes(chunks[k])}

\* numpy.array(items, dtype=vtu_to_numpy_type[header_type]).tobytes(): the
\* integers, each in itemsize bytes (the byte counts met here fit 4 bytes).
Header(items, itemsize) == [itemsize |-> itemsize, items |-> items]

\* The text of a data array: its format, its header and its characters.
ArrayText(format, header, chars) ==
  [format |-> format, header |-> header, chars |-> chars]
NoHeader == Header(<<>>, 0)

\* -int(-len(data_bytes) // max_block_size)
NumBlocks(num_bytes) == (num_bytes + max_block_size - 1) \div max_block_size

\* text_writer of a compressed array whose blocks compress to `sizes`.
CompressedText(num_bytes, sizes, itemsize) ==
  ArrayText("binary",
            Header(<<NumBlocks(num_bytes), max_block_size,
                     num_bytes - (NumBlocks(num_bytes) - 1) * max_block_size>>
                   \o sizes, itemsize),
            B64Len((3 + Len(sizes)) * itemsize) + B64Len(SumSeq(sizes)))

\* text_writer of an uncompressed binary array.
UncompressedText(num_bytes, itemsize) ==
  ArrayText("binary", Header(<<num_bytes>>, itemsize),
            B64Len(itemsize + num_bytes))

\* The arguments of a call of write and the arrays of its mesh; attrib is
\* the attributes of the root, header_type the local variable of that name,
\* todo the arrays not yet handed to numpy_to_xml_array, descs the data
\* arrays of the tree, texts what their text writers have written and
\* decoded what read_data makes of the texts.
WriteCall(header_type, binary, compression, byteorder, num_bytes) ==
  [pc |-> "args", arg |-> header_type, binary |-> binary,
   compression |-> compression, byteorder |-> byteorder,
   attrib |-> EmptyDict, header_type |-> header_type,
   todo |-> <<num_bytes>>, descs |-> <<>>, texts |-> <<>>, status |-> "ok",
   decoded |-> <<>>]

\* The root element and its attributes, write up to the compressor.
RootAttrib(o) ==
  [name \in {"type", "version", "byte_order"} |->
     IF name = "type" THEN "UnstructuredGrid"
     ELSE IF name = "version" THEN "0.1"
     ELSE IF o.byteorder = "little" THEN "LittleEndian" ELSE "BigEndian"]

WithHeaderType(o, attrib) ==
  IF o.arg = "None"
  THEN [o EXCEPT !.attrib = attrib, !.header_type = "UInt32"]
  ELSE [o EXCEPT !.attrib = ElementSet(attrib, "header_type", o.arg).attrib,
                 !.header_type = ElementSet(attrib, "header_type", o.arg).result]

WithCompressor(o) ==
  IF o.binary /\ o.compression # "None"
  THEN [o EXCEPT !.pc = "root",
                 !.attrib = ElementSet(o.attrib, "compressor",
                                       IF o.compression = "lzma"
                                       THEN "vtkLZMADataCompressor"
                                       ELSE "vtkZLibDataCompressor").attrib]
  ELSE [o EXCEPT !.pc = "root"]

\* numpy_to_xml_array: the data array joins the tree, its writer waits.
WithDataArray(o) ==
  [o EXCEPT !.todo = Tail(o.todo), !.descs = Append(o.descs, Head(o.todo))]

\* tree.write calls the text writer of the next data array.
WithText(o, text) ==
  [o EXCEPT !.texts = Append(o.texts, text),
            !.pc = IF Len(o.texts) + 1 = Len(o.descs) THEN "done" ELSE "tree"]
WriteRaised(o, status) == [o EXCEPT !.pc = "raised", !.status = status]

HeaderInit ==
  /\ pieces = <<>>
  /\ has_cell_data = FALSE
  /\ pc = "header"
  /\ reader = Raised("none")
  /\ mesh = NoMesh
  /\ raw = NoRaw
  /\ root = NoRoot
  /\ \E header_type \in HeaderTypes \cup {"None"}, binary \in BOOLEAN,
        compression \in {"None", "zlib", "lzma"},
        byteorder \in {"little", "big"}, num_bytes \in ByteCounts :
       out = WriteCall(header_type, binary, compression, byteorder, num_bytes)

AddArray ==
  /\ out.pc = "args"
  /\ Len(out.todo) < MaxArrays
  /\ \E num_bytes \in ByteCounts :
       out' = [out EXCEPT !.todo = Append(out.todo, num_bytes)]
  /\ UNCHANGED <<pieces, has_cell_data, pc, reader, mesh, raw, root>>

WriteRoot ==
  /\ out.pc = "args"
  /\ out' = WithCompressor(WithHeaderType(out, RootAttrib(out)))
  /\ UNCHANGED <<pieces, has_cell_data, pc, reader, mesh, raw, root>>

NumpyToXmlArray ==
  /\ out.pc = "root"
  /\ out.todo # <<>>
  /\ out' = WithDataArray(out)
  /\ UNCHANGED <<pieces, has_cell_data, pc, reader, mesh, raw, root>>

TreeWrite ==
  /\ out.pc = "root"
  /\ out.todo = <<>>
  /\ out' = [out EXCEPT !.pc = "tree"]
  /\ UNCHANGED <<pieces, has_cell_data, pc, reader, mesh, raw, root>>

TextWriter ==
  /\ out.pc = "tree"
  /\ IF ~out.binary
     THEN out' = WithText(out, ArrayText("ascii", NoHeader, 0))
     ELSE IF out.header_type \notin DOMAIN vtu_to_numpy_itemsize
     THEN out' = WriteRaised(out, "KeyError")
     ELSE IF out.compression = "None"
     THEN out' = WithText(out, UncompressedText(
                                 out.descs[Len(out.texts) + 1],
                                 vtu_to_numpy_itemsize[out.header_type]))
     ELSE \E sizes \in CompressedBlocks(
                         _chunk_it(out.descs[Len(out.texts) + 1], max_block_size, 0)) :
            out' = WithText(out, CompressedText(
                                   out.descs[Len(out.texts) + 1], sizes,
                                   vtu_to_numpy_itemsize[out.header_type]))
  /\ UNCHANGED <<pieces, has_cell_data, pc, reader, mesh, raw, root>>

\* ------------------------------------------------------------ arrays read back
\* The bytes lo..hi-1 of a payload.
Bytes(lo, hi) == [lo |-> lo, hi |-> hi]

\* The body the compressed writer put after the header of a payload of
\* num_bytes bytes: per block of _chunk_it the bytes it holds and the size
\* of its compressed form, as the header lists it.
WrittenBody(num_bytes, header) ==
  [k \in 1..Len(_chunk_it(num_bytes, max_block_size, 0)) |->
     [bytes |-> Bytes((k - 1) * max_block_size,
                      (k - 1) * max_block_size
                        + _chunk_it(num_bytes, max_block_size, 0)[k]),
      size |-> header.items[3 + k]]]

\* numpy.cumsum(block_sizes) behind byte_offsets[0] = 0.
ByteOffsets(block_sizes) ==
  [k \in 1..(Len(block_sizes) + 1) |->
     SumSeq(SubSeq(block_sizes, 1, k - 1))]

\* c.decompress(byte_array[a:b]): the bytes of the block whose compressed
\* form is exactly that slice of the body, 0 if the slice is none.
BlockAt(body, a, b) ==
  IF \E k \in 1..Len(body) :
       /\ SumSeq([m \in 1..(k - 1) |-> body[m].size]) = a
       /\ a + body[k].size = b
  THEN CHOOSE k \in 1..Len(body) :
         /\ SumSeq([m \in 1..(k - 1) |-> body[m].size]) = a
         /\ a + body[k].size = b
  ELSE 0

Decoded(status, parts) == [status |-> status, parts |-> parts]

\* The list comprehension and numpy.concatenate of read_compressed_binary:
\* concatenate raises ValueError on an empty list, decompress raises on a
\* slice that is no compressed block.
Decompressed(body, byte_offsets, num_blocks) ==
  IF \E k \in 1..num_blocks : BlockAt(body, byte_offsets[k], byte_offsets[k + 1]) = 0
  THEN Decoded("zlib.error", <<>>)
  ELSE IF num_blocks = 0 THEN Decoded("ValueError", <<>>)
  ELSE Decoded("ok",
               [k \in 1..num_blocks |->
                  body[BlockAt(body, byte_offsets[k], byte_offsets[k + 1])].bytes])

\* read_compressed_binary on the text of a compressed array, the header
\* integers taken in reader_itemsize bytes: num_blocks from the first
\* integer, the header of 3 + num_blocks integers, the body behind the
\* characters of the header.
read_compressed_binary(text, body, reader_itemsize) ==
  IF reader_itemsize # text.header.itemsize
       \/ 3 + text.header.items[1] # Len(text.header.items)
  THEN Decoded("ValueError", <<>>)
  ELSE Decompressed(body,
                    ByteOffsets(SubSeq(text.header.items, 4, Len(text.header.items))),
                    text.header.items[1])

\* read_uncompressed_binary: the first total_num_bytes bytes behind the
\* header.
read_uncompressed_binary(text, num_bytes, reader_itemsize) ==
  IF reader_itemsize # text.header.itemsize THEN Decoded("ValueError", <<>>)
  ELSE Decoded("ok", <<Bytes(0, Min(text.header.items[1], num_bytes))>>)

\* self.header_type of the reader of the file written.
ReaderItemsize(attrib) ==
  IF "header_type" \in DOMAIN attrib THEN vtu_to_numpy_itemsize[attrib["header_type"]]
  ELSE vtu_to_numpy_itemsize["UInt32"]

\* read_data of the next binary data array of the file written.
ReadDataOf(o, k) ==
  IF "compressor" \in DOMAIN o.attrib
  THEN read_compressed_binary(o.texts[k], WrittenBody(o.descs[k], o.texts[k].header),
                              ReaderItemsize(o.attrib))
  ELSE read_uncompressed_binary(o.texts[k], o.descs[k], ReaderItemsize(o.attrib))

ReadData ==
  /\ out.pc = "done"
  /\ out.binary
  /\ Len(out.decoded) < Len(out.texts)
  /\ out' = [out EXCEPT !.decoded =
               Append(out.decoded, ReadDataOf(out, Len(out.decoded) + 1))]
  /\ UNCHANGED <<pieces, has_cell_data, pc, reader, mesh, raw, root>>

HeaderNext ==
  AddArray \/ WriteRoot \/ NumpyToXmlArray \/ TreeWrite \/ TextWriter \/ ReadData

SpecHeader == HeaderInit /\ [][HeaderNext]_vars

\* The kind the headers of a call are to be encoded in.
DeclaredKind == IF out.arg = "None" THEN "UInt32" ELSE out.arg

\* A binary header of the declared width: the byte count alone, or
\* [num_blocks, max_block_size, last_block_size] and one size per block.
HeaderAsDeclared(text) ==
  text.format = "binary" =>
    /\ text.header.itemsize = vtu_to_numpy_itemsize[DeclaredKind]
    /\ Len(text.header.items) \in
         IF out.compression = "None" THEN {1}
         ELSE {3 + text.header.items[1]}

\* C8: a call of write with header_type H ends with the root declaring
\* header_type = H and every binary array header encoded in the width of H;
\* without header_type the root declares none and the headers are 32-bit
\* unsigned integers.
C8_HeadersInDeclaredWidth ==
  out.pc \in {"done", "raised"} =>
    /\ out.status = "ok"
    /\ IF out.arg = "None" THEN "header_type" \notin DOMAIN out.attrib
       ELSE /\ "header_type" \in DOMAIN out.attrib
            /\ out.attrib["header_type"] = out.arg
    /\ \A k \in 1..Len(out.texts) : HeaderAsDeclared(out.texts[k])

\* The payload of num_bytes bytes in blocks of max_block_size.
PayloadInBlocks(num_bytes) ==
  [k \in 1..NumBlocks(num_bytes) |->
     Bytes((k - 1) * max_block_size, Min(k * max_block_size, num_bytes))]

\* C13: what the compressed writer emitted for a payload of L bytes has
\* ceil(L / 32768) blocks and the header [num_blocks, 32768, last block
\* size, one size per block], and read_compressed_binary returns from it
\* the payload, block after block; this for every L, 0 included.
C13_CompressedReadBack ==
  \A k \in 1..Len(out.decoded) :
    out.compression # "None" =>
      /\ out.texts[k].header.items[1] = NumBlocks(out.descs[k])
      /\ out.texts[k].header.items[2] = max_block_size
      /\ Len(out.texts[k].header.items) = 3 + NumBlocks(out.descs[k])
      /\ out.decoded[k].status = "ok"
      /\ out.decoded[k].parts = PayloadInBlocks(out.descs[k])

\* ------------------------------------------------------------ get_grid
MaxChildren == 3

\* A text is None or a sequence of characters; the texts an element may
\* have.
NoText == [isNone |-> TRUE, chars |-> <<>>]
Text(chars) == [isNone |-> FALSE, chars |-> chars]
Texts ==
  {NoText, Text(<<>>), Text(<<"_">>), Text(<<" ", "_", "a", " ">>), Text(<<"a">>)}

\* str.strip(): the characters without leading and trailing white space.
RECURSIVE LStrip(_)
LStrip(chars) ==
  IF chars # <<>> /\ Head(chars) = " " THEN LStrip(Tail(chars)) ELSE chars
RECURSIVE RStrip(_)
RStrip(chars) ==
  IF chars # <<>> /\ chars[Len(chars)] = " "
  THEN RStrip(SubSeq(chars, 1, Len(chars) - 1))
  ELSE chars
Strip(chars) == RStrip(LStrip(chars))

\* A child of the root: its tag, its encoding attribute ("absent" when it
\* has none) and its text.
Child(tag, encoding, text) == [tag |-> tag, encoding |-> encoding, text |-> text]
Children ==
  {Child("UnstructuredGrid", "absent", NoText), Child("Other", "absent", NoText)}
  \cup {Child("AppendedData", e, t) : e \in {"base64", "raw", "absent"}, t \in Texts}

\* What get_grid hands back: the status, the position of the grid among the
\* children (0 for None) and the appended data (a text, or None).
GridResult(status, grid, appended_data) ==
  [status |-> status, grid |-> grid, appended_data |-> appended_data]
GridRaised(status) == GridResult(status, 0, NoText)

\* The AppendedData branch of the loop body for child c.
AppendedBranch(acc, c) ==
  IF ~acc.appended_data.isNone THEN GridRaised("ReadError")
  ELSE IF c.encoding = "absent" THEN GridRaised("KeyError")
  ELSE IF c.encoding # "base64" THEN GridRaised("ReadError")
  ELSE IF c.text.isNone THEN GridRaised("AttributeError")
  ELSE IF Strip(c.text.chars) = <<>> THEN GridRaised("IndexError")
  ELSE IF Head(Strip(c.text.chars)) # "_" THEN GridRaised("ReadError")
  ELSE [acc EXCEPT !.appended_data = Text(Tail(Strip(c.text.chars)))]

\* The loop over the children of root, from child k on.
RECURSIVE GridLoop(_, _, _)
GridLoop(acc, children, k) ==
  IF acc.status # "ok" \/ k > Len(children) THEN acc
  ELSE IF children[k].tag = "UnstructuredGrid"
  THEN GridLoop(IF acc.grid # 0 THEN GridRaised("ReadError")
                ELSE [acc EXCEPT !.grid = k],
                children, k + 1)
  ELSE IF children[k].tag # "AppendedData" THEN GridRaised("ReadError")
  ELSE GridLoop(AppendedBranch(acc, children[k]), children, k + 1)

GridFound(acc) ==
  IF acc.status = "ok" /\ acc.grid = 0 THEN GridRaised("ReadError") ELSE acc

get_grid(children) == GridFound(GridLoop(GridResult("ok", 0, NoText), children, 1))

GridInit ==
  /\ pieces = <<>>
  /\ has_cell_data = FALSE
  /\ pc = "grid"
  /\ reader = Raised("none")
  /\ mesh = NoMesh
  /\ raw = NoRaw
  /\ out = NoOut
  /\ root = [pc |-> "children", children |-> <<>>, result |-> GridRaised("none")]

AddChild ==
  /\ root.pc = "children"
  /\ Len(root.children) < MaxChildren
  /\ \E c \in Children : root' = [root EXCEPT !.children = Append(root.children, c)]
  /\ UNCHANGED <<pieces, has_cell_data, pc, reader, mesh, raw, out>>

GetGrid ==
  /\ root.pc = "children"
  /\ root' = [root EXCEPT !.pc = "done", !.result = get_grid(root.children)]
  /\ UNCHANGED <<pieces, has_cell_data, pc, reader, mesh, raw, out>>

GridNext == AddChild \/ GetGrid

SpecGrid == GridInit /\ [][GridNext]_vars

\* The children with the given tag.
WithTag(children, tag) == {k \in 1..Len(children) : children[k].tag = tag}

\* Exactly one grid, at most one appended-data child, that one with the
\* encoding base64 and a stripped text that begins with an underscore, and
\* no child with another tag.
GoodChildren(children) ==
  /\ Cardinality(WithTag(children, "UnstructuredGrid")) = 1
  /\ Cardinality(WithTag(children, "AppendedData")) <= 1
  /\ \A k \in WithTag(children, "AppendedData") :
       /\ children[k].encoding = "base64"
       /\ ~children[k].text.isNone
       /\ Strip(children[k].text.chars) # <<>>
       /\ Head(Strip(children[k].text.chars)) = "_"
  /\ \A k \in 1..Len(children) :
       children[k].tag \in {"UnstructuredGrid", "AppendedData"}

\* C14: get_grid returns if and only if the children are as GoodChildren
\* says, and raises the read error otherwise; what it returns is the grid
\* and the stripped text of the appended data without its underscore, None
\* without an appended-data child.
C14_GridOrReadError ==
  root.pc = "done" =>
    IF GoodChildren(root.children)
    THEN /\ root.result.status = "ok"
         /\ root.result.grid \in WithTag(root.children, "UnstructuredGrid")
         /\ \A k \in WithTag(root.children, "AppendedData") :
              root.result.appended_data
                = Text(Tail(Strip(root.children[k].text.chars)))
         /\ WithTag(root.children, "AppendedData") = {}
              => root.result.appended_data.isNone
    ELSE root.result = GridRaised("ReadError")

====
